---- MODULE Spec2Model ----
(***************************************************************************)
(* Plan / execute / respond agent of phoenix-bedrock-monitoring.           *)
(*                                                                         *)
(* Spec          one conversation turn run by SearchAgentWorkflow: the     *)
(*               planner, executor and responder nodes and the two         *)
(*               conditional edges between them.                           *)
(* SpecExecutor  successive Executor calls, each on the state the previous *)
(*               one returned, starting from a bounded set of states.      *)
(* SpecResponder one Responder invocation in each of its three modes       *)
(*               (__call__, acall, astream) on a bounded set of states.    *)
(* SpecContext   Responder._build_context applied to a bounded set of      *)
(*               states.                                                   *)
(* SpecSearch    one TavilySearch.get_search_results call with its pool of  *)
(*               concurrently running sub-queries.                         *)
(* SpecPlanner   one Planner invocation (__call__ or acall) on a bounded    *)
(*               set of states and model runs.                             *)
(* SpecApp       the chat session of demo/app.py: prompts entered one      *)
(*               after the other, each run through workflow.astream,       *)
(*               run_workflow and process_workflow.                        *)
(*                                                                         *)
(* Text (str) is a sequence of characters, a character a small natural.    *)
(***************************************************************************)
EXTENDS Integers, Sequences, FiniteSets, TLC

VARIABLES
    node,        \* workflow: the node that runs next ("END", "raised" when over)
    state,       \* workflow: the AgentState held by the graph
    trace,       \* workflow: the nodes that have run in this turn, in order
    exec_log,    \* workflow: the Executor calls of this turn, in order
    raised_by,   \* workflow: the node whose run raised, "none" while none has
    resp_submitted, \* workflow: the prompts the responder node gave its model
    r_pc,        \* responder: "start" before the invocation, "done" after
    r_mode,      \* responder: the method invoked
    r_state,     \* responder: the AgentState it is invoked on
    r_stream,    \* responder: what model.astream / model.ainvoke would produce
    r_out,       \* responder: what the invocation produced
    e_pc,        \* executor: "ready" while calls can be made, "raised" after one raised
    e_state,     \* executor: the AgentState the next call is made on
    e_calls,     \* executor: the calls made so far, each with input and result
    c_pc,        \* context: "start" before _build_context is applied, "done" after
    c_state,     \* context: the AgentState it is applied to
    c_out,       \* context: the (context, urls) pair it returned
    a_pc,        \* app: "chat" awaiting a prompt, the graph node that runs next,
                 \*      "END" when the graph is through, "done" / "failed" after a turn
    a_session,   \* app: st.session_state.agent_state
    a_state,     \* app: the AgentState held by the graph during the turn
    a_final_state, \* app: run_workflow's final_state
    a_streaming, \* app: run_workflow's streaming_response
    a_events,    \* app: the events run_workflow has yielded in this turn
    a_response,  \* app: process_workflow's response
    a_before,    \* app: the session's message_history when the prompt arrived
    a_turns,     \* app: the prompts entered so far
    s_pc,        \* search: "start", "running", "returned" or "raised"
    s_input,     \* search: the queries argument of get_search_results
    s_queries,   \* search: the list of queries after the str case is wrapped
    s_status,    \* search: per query, where its search_and_format call stands
    s_reordered, \* search: a sub-query finished while an earlier one had not
    s_calls,     \* search: per query, how often self.search was called with it
    s_out,       \* search: what get_search_results returned or raised
    p_pc,        \* planner: "start" before the invocation, "done" after
    p_mode,      \* planner: the method invoked
    p_state,     \* planner: the AgentState it is invoked on
    p_events,    \* planner: what the model run produces (events, then its end)
    p_out        \* planner: what the invocation produced

vars == <<node, state, trace, exec_log, raised_by, resp_submitted,
          r_pc, r_mode, r_state, r_stream, r_out,
          e_pc, e_state, e_calls, c_pc, c_state, c_out,
          a_pc, a_session, a_state, a_final_state, a_streaming, a_events,
          a_response, a_before, a_turns,
          s_pc, s_input, s_queries, s_status, s_reordered, s_calls, s_out,
          p_pc, p_mode, p_state, p_events, p_out>>

wf_vars == <<node, state, trace, exec_log, raised_by, resp_submitted>>
r_vars  == <<r_pc, r_mode, r_state, r_stream, r_out>>
e_vars  == <<e_pc, e_state, e_calls>>
c_vars  == <<c_pc, c_state, c_out>>
p_vars  == <<p_pc, p_mode, p_state, p_events, p_out>>
s_vars  == <<s_pc, s_input, s_queries, s_status, s_reordered, s_calls, s_out>>
a_vars  == <<a_pc, a_session, a_state, a_final_state, a_streaming, a_events,
             a_response, a_before, a_turns>>

----------------------------------------------------------------------------
(* Bounds *)

MaxTasks   == 2      \* tasks in one plan
MaxRounds  == 3      \* planner invocations in one turn
MaxRespLen == 205    \* characters of a direct response
MaxStream  == 2      \* chunks of one model stream
MaxCalls   == 3      \* successive Executor calls
MaxItems   == 2      \* items in the results list of one tool result
MaxExecuted == 2     \* entries of executed_tasks handed to _build_context
MaxTurns   == 2      \* prompts entered in one session
MaxAppRounds == 2    \* planner invocations in one turn of the session
MaxQueries == 4      \* queries handed to one get_search_results call
MaxPlanEvents == 2   \* events of one planner model run before its last one

----------------------------------------------------------------------------
(* Helpers *)

Min(a, b) == IF a < b THEN a ELSE b

Last(s) == s[Len(s)]

RECURSIVE Concat(_)
Concat(ss) == IF ss = <<>> THEN <<>> ELSE Head(ss) \o Concat(Tail(ss))

Count(s, x) == Cardinality({i \in 1..Len(s) : s[i] = x})

SeqsUpTo(S, n) == UNION {[1..k -> S] : k \in 0..n}

----------------------------------------------------------------------------
(* Data model: schemas.py *)

Task(title, tool_name) == [title |-> title, tool_name |-> tool_name]

\* The tasks a plan may hold.  web_search.py names two tools, of which the
\* workflow registers only the Tavily one; tool_name defaults to "".
Tasks ==
    { Task("t1", "tavily_web_search"), Task("t2", "tavily_web_search"),
      Task("t3", "brave_web_search"),  Task("t4", "") }

EmptyText == <<>>

Plan(requires_tool, direct_response, overview, tasks) ==
    [requires_tool |-> requires_tool, direct_response |-> direct_response,
     overview |-> overview, tasks |-> tasks]

AgentState(input, plan, executed_tasks, remaining_tasks, response, message_history) ==
    [input |-> input, plan |-> plan, executed_tasks |-> executed_tasks,
     remaining_tasks |-> remaining_tasks, response |-> response,
     message_history |-> message_history]

initial_state ==
    AgentState(EmptyText, Plan(FALSE, EmptyText, EmptyText, <<>>),
               <<>>, <<>>, EmptyText, <<>>)

----------------------------------------------------------------------------
(* Executor: nodes/executor.py *)

\* self.tools = {tool.name: tool for tool in tools}, tools = [TavilySearch().get_tool()]
RegisteredTools == {"tavily_web_search"}

\* What tool.invoke(task.tool_args) does: it returns a value or raises.
ToolResults == {"res_a", "res_b"}
ToolErrors  == {"timeout"}

ToolOutcomes ==
    [kind : {"return"}, value : ToolResults] \cup
    [kind : {"raise"}, exception : [msg : ToolErrors]]

\* str(e) of an exception raised with one message argument
str(e) == e.msg

ExecutedEntry(task, result, success) ==
    [task |-> task, result |-> result, success |-> success]

\* (mutant) a returned call also puts the task back in the queue
ExecutorOnSuccess_requeues(task, result) ==
    [executed_tasks  |-> <<ExecutedEntry(task, result, TRUE)>>,
     remaining_tasks |-> <<task>>]

\* try-branch: the two local lists after a tool call that returned
ExecutorOnSuccess(task, result) ==
    [executed_tasks  |-> <<ExecutedEntry(task, result, TRUE)>>,
     remaining_tasks |-> <<>>]

\* (mutant) a raised call records the failure but drops the task
ExecutorOnFailure_drops(task, e) ==
    [executed_tasks  |-> <<ExecutedEntry(task, str(e), FALSE)>>,
     remaining_tasks |-> <<>>]

\* except-branch: the two local lists after a tool call that raised
ExecutorOnFailure(task, e) ==
    [executed_tasks  |-> <<ExecutedEntry(task, str(e), FALSE)>>,
     remaining_tasks |-> <<task>>]

\* Executor.__call__(state) with the tool behaving as `outcome`.
\*   raised       an exception left the call (no state is returned)
\*   returned     the state the call returns (meaningful when ~raised)
\*   input_after  the state object that was passed in, as it is after the call
\*   invoked      the tool invocations made, in order, each with how it ended
\* `not state.plan` is never true of a Plan object, so the early return
\* depends on plan.tasks alone.
Executor_call(s, outcome) ==
    IF s.plan.tasks = <<>>
    THEN [raised |-> FALSE, returned |-> s, input_after |-> s, invoked |-> <<>>]
    ELSE
      LET task   == Head(s.plan.tasks)                         \* tasks.pop(0)
          popped == [s EXCEPT !.plan.tasks = Tail(s.plan.tasks)]
      IN  IF task.tool_name \notin RegisteredTools
          THEN \* self.tools[task.tool_name] raises KeyError before the try
               [raised |-> TRUE, returned |-> popped, input_after |-> popped,
                invoked |-> <<>>]
          ELSE
            LET lists == IF outcome.kind = "return"
                         THEN ExecutorOnSuccess(task, outcome.value)
                         ELSE ExecutorOnFailure(task, outcome.exception)
            IN  [raised |-> FALSE,
                 \* {**state.model_dump(), "executed_tasks": .., "remaining_tasks": ..}
                 returned |-> [popped EXCEPT
                                 !.executed_tasks  = lists.executed_tasks,
                                 !.remaining_tasks = lists.remaining_tasks],
                 input_after |-> popped,
                 invoked |-> <<[tool |-> task.tool_name, task |-> task,
                               outcome |-> outcome]>>]

----------------------------------------------------------------------------
(* Orchestrator: workflow.py *)

\* (mutant) `or` in place of `and`
check_execution_needed_or(s) ==
    IF s.plan.requires_tool \/ Len(s.plan.tasks) > 0 THEN "execute" ELSE "respond"

check_execution_needed(s) ==
    IF s.plan.requires_tool /\ Len(s.plan.tasks) > 0 THEN "execute" ELSE "respond"

\* (mutant) tasks left in the plan also count as pending
check_next_step_plan_tasks(s) ==
    IF s.remaining_tasks # <<>> \/ s.plan.tasks # <<>> THEN "plan" ELSE "respond"

check_next_step_respond(s) == "respond"

check_next_step(s) ==
    IF s.remaining_tasks # <<>> THEN "plan" ELSE "respond"

\* add_conditional_edges("planner", check_execution_needed, {...})
PlannerEdges(route)  == IF route = "execute" THEN "executor" ELSE "responder"

\* add_conditional_edges("executor", check_next_step, {...})
ExecutorEdges_always_plan(route) == "planner"

ExecutorEdges(route) == IF route = "plan" THEN "planner" ELSE "responder"

\* add_edge("responder", END)
ResponderEdge_loop == "planner"

ResponderEdge == "END"

\* No node and no part of astream catches an exception of a node: it leaves
\* the graph run and astream, and the turn is over.
OnNodeError_skips_to_responder(n) == IF n = "planner" THEN "responder" ELSE "raised"

OnNodeError(n) == "raised"

----------------------------------------------------------------------------
(* Language model as seen by the Responder *)

\* A streamed chunk carries either a plain string or a list of content items
\* ("Claude 3 format"), each item a mapping with a type and, for text, a text.
Chunks ==
    { [kind |-> "str",  text  |-> EmptyText],
      [kind |-> "str",  text  |-> <<7>>],
      [kind |-> "list", items |-> <<[type |-> "text", text |-> <<8, 9>>]>>],
      [kind |-> "list", items |-> <<[type |-> "tool_use", text |-> <<5>>],
                                     [type |-> "text", text |-> <<6>>],
                                     [type |-> "text", text |-> EmptyText]>>] }

Streams == SeqsUpTo(Chunks, MaxStream)

----------------------------------------------------------------------------
(* Responder: nodes/responder.py *)

chunk_size == 100

HumanMessage(content) == [type |-> "human", content |-> content]
AIMessage(content)    == [type |-> "ai", content |-> content]

RECURSIVE HistoryMessages(_)
HistoryMessages(history) ==
    IF history = <<>> THEN <<>>
    ELSE LET msg == Head(history)
             rest == HistoryMessages(Tail(history))
         IN  IF msg.role = "user" THEN <<HumanMessage(msg.content)>> \o rest
             ELSE IF msg.role = "assistant" THEN <<AIMessage(msg.content)>> \o rest
             ELSE rest

\* The prompt value handed to the model: system prompt, instruction carrying
\* the query, then the conversation (history followed by the current input).
Responder_build_messages(s) ==
    [system       |-> "SYSTEM_PROMPT",
     query        |-> s.input,
     conversation |-> HistoryMessages(s.message_history) \o <<HumanMessage(s.input)>>]

\* (mutant) the slice ends one character late
DirectChunk_overlap(response, i) ==
    SubSeq(response, i + 1, Min(i + chunk_size + 1, Len(response)))

\* response[i:i + chunk_size], i counted from 0
DirectChunk(response, i) ==
    SubSeq(response, i + 1, Min(i + chunk_size, Len(response)))

\* for i in range(0, len(response), chunk_size): yield response[i:i + chunk_size]
RECURSIVE DirectChunks(_, _)
DirectChunks(response, i) ==
    IF i >= Len(response) THEN <<>>
    ELSE <<DirectChunk(response, i)>> \o DirectChunks(response, i + chunk_size)

\* the tokens one content list yields: text items with a non-empty text
RECURSIVE ItemTokens(_)
ItemTokens(items) ==
    IF items = <<>> THEN <<>>
    ELSE LET item == Head(items)
         IN  (IF item.type = "text" /\ item.text # EmptyText
              THEN <<item.text>> ELSE <<>>) \o ItemTokens(Tail(items))

\* the tokens the `async for chunk in self.model.astream(messages)` loop yields
RECURSIVE StreamTokens(_)
StreamTokens(stream) ==
    IF stream = <<>> THEN <<>>
    ELSE LET chunk == Head(stream)
         IN  (IF chunk.kind = "list" THEN ItemTokens(chunk.items)
              ELSE IF chunk.text # EmptyText THEN <<chunk.text>> ELSE <<>>)
             \o StreamTokens(Tail(stream))

Token(text) == [type |-> "token", text |-> text]

RECURSIVE Tokens(_)
Tokens(texts) ==
    IF texts = <<>> THEN <<>> ELSE <<Token(Head(texts))>> \o Tokens(Tail(texts))

\* (mutant) the terminal event carries the new entry alone
FinalEvent_new_entry_only(s, response) ==
    [type |-> "final", response |-> response,
     message_history |-> <<[role |-> "assistant", content |-> response]>>]

\* the dict yielded last: {'response': .., 'message_history': [*history, {...}]}
FinalEvent(s, response) ==
    [type |-> "final", response |-> response,
     message_history |-> s.message_history \o
                         <<[role |-> "assistant", content |-> response]>>]

\* What one invocation produces:
\*   yields     the items the async generator yields, in order
\*   returned   the value returned (a sequence of zero or one states)
\*   submitted  the prompts submitted to the model, in order
\*   input_after  the state object that was passed in, as it is after the call
\*                ([*state.message_history, {...}] builds a new list)
Responder_call(s, stream) ==
    IF s.plan.direct_response # EmptyText
    THEN LET response == s.plan.direct_response
         IN  [yields    |-> Tokens(DirectChunks(response, 0)) \o
                            <<FinalEvent(s, response)>>,
              returned  |-> <<>>,
              submitted |-> <<>>,
              input_after |-> s]
    ELSE LET tokens == StreamTokens(stream)
         IN  [yields    |-> Tokens(tokens) \o <<FinalEvent(s, Concat(tokens))>>,
              returned  |-> <<>>,
              submitted |-> <<Responder_build_messages(s)>>,
              input_after |-> s]

\* model.ainvoke(...).content: the aggregate of what the model generates
ainvoke_content(stream) == Concat(StreamTokens(stream))

Responder_acall(s, stream) ==
    [yields    |-> <<>>,
     returned  |-> <<[s EXCEPT !.response = ainvoke_content(stream)]>>,
     submitted |-> <<Responder_build_messages(s)>>,
     input_after |-> s]

Responder_astream(s, stream) ==
    IF s.plan.direct_response # EmptyText
    THEN [yields    |-> <<Token(s.plan.direct_response)>>,
          returned  |-> <<>>,
          submitted |-> <<>>,
          input_after |-> s]
    ELSE LET tokens == StreamTokens(stream)
         IN  [yields    |-> Tokens(tokens) \o <<FinalEvent(s, Concat(tokens))>>,
              returned  |-> <<>>,
              submitted |-> <<Responder_build_messages(s)>>,
              input_after |-> s]

----------------------------------------------------------------------------
(* Planner: nodes/planner.py.  The structured-output model may return any  *)
(* value of the Plan schema.                                               *)

Overviews == {EmptyText}

PlannerDirectResponses == {EmptyText, <<4, 2>>}

PlannerPlans ==
    { Plan(rt, d, o, tasks) :
        rt \in BOOLEAN, d \in PlannerDirectResponses, o \in Overviews,
        tasks \in SeqsUpTo(Tasks, MaxTasks) }

\* (mutant) the tasks of the new plan are added to those of the previous one
Planner_call_merges(s, plan) ==
    [s EXCEPT !.plan = [plan EXCEPT !.tasks = s.plan.tasks \o plan.tasks]]

\* the state yielded on on_chain_end: {**state.model_dump(), "plan": plan}
Planner_call(s, plan) == [s EXCEPT !.plan = plan]

----------------------------------------------------------------------------
(* One turn of the workflow graph *)

Queries == {<<1>>}

\* what the Responder's model streams in a turn
TurnStreams == {<<>>} \cup {<<c>> : c \in Chunks}

PriorHistories ==
    { <<>>,
      <<[role |-> "user", content |-> <<2>>],
        [role |-> "assistant", content |-> <<3>>]>> }

\* demo/app.py, chat input: the session state gets the prompt as input and a
\* user entry appended to message_history before the workflow starts.
TurnStates ==
    { [initial_state EXCEPT
         !.input = q,
         !.message_history = h \o <<[role |-> "user", content |-> q]>>] :
      q \in Queries, h \in PriorHistories }

NoOutput == [yields |-> <<>>, returned |-> <<>>, submitted |-> <<>>]

ResponderIdle ==
    /\ r_pc = "idle"
    /\ r_mode = "none"
    /\ r_state = initial_state
    /\ r_stream = <<>>
    /\ r_out = NoOutput

ExecutorIdle ==
    /\ e_pc = "idle"
    /\ e_state = initial_state
    /\ e_calls = <<>>

ContextIdle ==
    /\ c_pc = "idle"
    /\ c_state = initial_state
    /\ c_out = <<>>

AppIdle ==
    /\ a_pc = "idle"
    /\ a_session = initial_state
    /\ a_state = initial_state
    /\ a_final_state = initial_state
    /\ a_streaming = FALSE
    /\ a_events = <<>>
    /\ a_response = EmptyText
    /\ a_before = <<>>
    /\ a_turns = 0

PlannerIdle ==
    /\ p_pc = "idle"
    /\ p_mode = "none"
    /\ p_state = initial_state
    /\ p_events = <<>>
    /\ p_out = <<>>

SearchIdle ==
    /\ s_pc = "idle"
    /\ s_input = <<>>
    /\ s_queries = <<>>
    /\ s_status = <<>>
    /\ s_reordered = FALSE
    /\ s_calls = <<>>
    /\ s_out = <<>>

Init ==
    /\ node = "planner"              \* set_entry_point("planner")
    /\ state \in TurnStates
    /\ trace = <<>>
    /\ exec_log = <<>>
    /\ raised_by = "none"
    /\ resp_submitted = <<>>
    /\ ResponderIdle
    /\ ExecutorIdle
    /\ ContextIdle
    /\ AppIdle
    /\ SearchIdle
    /\ PlannerIdle

PlannerNode ==
    /\ node = "planner"
    /\ Count(trace, "planner") < MaxRounds
    /\ \E plan \in PlannerPlans :
         /\ state' = Planner_call(state, plan)
         /\ node' = PlannerEdges(check_execution_needed(state'))
    /\ trace' = Append(trace, "planner")
    /\ UNCHANGED <<exec_log, raised_by, resp_submitted,
                   r_vars, e_vars, c_vars, a_vars, s_vars, p_vars>>

\* the model call or the parsing of its output raises
PlannerRaises ==
    /\ node = "planner"
    /\ Count(trace, "planner") < MaxRounds
    /\ node' = OnNodeError("planner")
    /\ raised_by' = "planner"
    /\ trace' = Append(trace, "planner")
    /\ UNCHANGED <<state, exec_log, resp_submitted,
                   r_vars, e_vars, c_vars, a_vars, s_vars, p_vars>>

ExecutorNode ==
    /\ node = "executor"
    /\ \E outcome \in ToolOutcomes :
         LET r == Executor_call(state, outcome)
         IN  /\ exec_log' = Append(exec_log,
                   [task |-> Head(state.plan.tasks), raised |-> r.raised,
                    invoked |-> r.invoked,
                    remaining |-> IF r.raised THEN <<>>
                                  ELSE r.returned.remaining_tasks])
             /\ IF r.raised
                THEN /\ node' = OnNodeError("executor")
                     /\ raised_by' = "executor"
                     /\ state' = state
                ELSE /\ state' = r.returned
                     /\ raised_by' = raised_by
                     /\ node' = ExecutorEdges(check_next_step(state'))
    /\ trace' = Append(trace, "executor")
    /\ UNCHANGED <<resp_submitted, r_vars, e_vars, c_vars, a_vars, s_vars, p_vars>>

ResponderNode ==
    /\ node = "responder"
    /\ \E stream \in TurnStreams :
         LET r     == Responder_call(state, stream)
             final == Last(r.yields)
         IN  /\ state' = [state EXCEPT !.response = final.response,
                                       !.message_history = final.message_history]
             /\ resp_submitted' = r.submitted
    /\ node' = ResponderEdge
    /\ trace' = Append(trace, "responder")
    /\ UNCHANGED <<exec_log, raised_by, r_vars, e_vars, c_vars, a_vars, s_vars, p_vars>>

\* the model stream raises (the model is called only without a direct response)
ResponderRaises ==
    /\ node = "responder"
    /\ state.plan.direct_response = EmptyText
    /\ node' = OnNodeError("responder")
    /\ raised_by' = "responder"
    /\ trace' = Append(trace, "responder")
    /\ UNCHANGED <<state, exec_log, resp_submitted,
                   r_vars, e_vars, c_vars, a_vars, s_vars, p_vars>>

Next ==
    \/ PlannerNode
    \/ PlannerRaises
    \/ ExecutorNode
    \/ ResponderNode
    \/ ResponderRaises

Spec == Init /\ [][Next]_vars

----------------------------------------------------------------------------
(* One Responder invocation *)

DirectResponses == { [i \in 1..n |-> (i % 7) + 1] : n \in 0..MaxRespLen }

ResponderModes == {"__call__", "acall", "astream"}

ResponderStates ==
    { AgentState(q, Plan(d = EmptyText, d, EmptyText, <<>>), <<>>, <<>>, EmptyText,
                 h \o <<[role |-> "user", content |-> q]>>) :
      q \in Queries, d \in DirectResponses, h \in PriorHistories }

WorkflowIdle ==
    /\ node = "END"
    /\ state = initial_state
    /\ trace = <<>>
    /\ exec_log = <<>>
    /\ raised_by = "none"
    /\ resp_submitted = <<>>

InitResponder ==
    /\ WorkflowIdle
    /\ ExecutorIdle
    /\ ContextIdle
    /\ AppIdle
    /\ SearchIdle
    /\ PlannerIdle
    /\ r_pc = "start"
    /\ r_mode \in ResponderModes
    /\ r_state \in ResponderStates
    /\ r_stream \in Streams
    /\ r_out = NoOutput

InvokeCall ==
    /\ r_pc = "start" /\ r_mode = "__call__"
    /\ r_out' = Responder_call(r_state, r_stream)
    /\ r_pc' = "done"
    /\ UNCHANGED <<r_mode, r_state, r_stream, wf_vars, e_vars, c_vars, a_vars, s_vars, p_vars>>

InvokeAcall ==
    /\ r_pc = "start" /\ r_mode = "acall"
    /\ r_out' = Responder_acall(r_state, r_stream)
    /\ r_pc' = "done"
    /\ UNCHANGED <<r_mode, r_state, r_stream, wf_vars, e_vars, c_vars, a_vars, s_vars, p_vars>>

InvokeAstream ==
    /\ r_pc = "start" /\ r_mode = "astream"
    /\ r_out' = Responder_astream(r_state, r_stream)
    /\ r_pc' = "done"
    /\ UNCHANGED <<r_mode, r_state, r_stream, wf_vars, e_vars, c_vars, a_vars, s_vars, p_vars>>

NextResponder == InvokeCall \/ InvokeAcall \/ InvokeAstream

SpecResponder == InitResponder /\ [][NextResponder]_vars

----------------------------------------------------------------------------
(* Successive Executor calls *)

\* what an earlier round of the turn left in the state: nothing, or the
\* record of a failed task and the task requeued
PriorRounds ==
    { [executed_tasks |-> <<>>, remaining_tasks |-> <<>>],
      ExecutorOnFailure(Task("t1", "tavily_web_search"), [msg |-> "timeout"]) }

\* the states the executor node is entered with: check_execution_needed has
\* answered "execute" on a plan the planner returned
ExecutorStates ==
    { AgentState(q, plan, prior.executed_tasks, prior.remaining_tasks, EmptyText,
                 <<[role |-> "user", content |-> q]>>) :
      q \in Queries, prior \in PriorRounds,
      plan \in {pl \in PlannerPlans :
                  /\ pl.direct_response = EmptyText
                  /\ check_execution_needed([initial_state EXCEPT !.plan = pl])
                        = "execute"} }

InitExecutor ==
    /\ WorkflowIdle
    /\ ResponderIdle
    /\ ContextIdle
    /\ AppIdle
    /\ SearchIdle
    /\ PlannerIdle
    /\ e_pc = "ready"
    /\ e_state \in ExecutorStates
    /\ e_calls = <<>>

\* executor(state) returns: the next call is made on the state it returned
ExecutorReturns ==
    /\ e_pc = "ready"
    /\ Len(e_calls) < MaxCalls
    /\ \E outcome \in ToolOutcomes :
         LET r == Executor_call(e_state, outcome)
         IN  /\ ~r.raised
             /\ e_calls' = Append(e_calls,
                   [input |-> e_state, raised |-> FALSE, returned |-> r.returned,
                    input_after |-> r.input_after, invoked |-> r.invoked])
             /\ e_state' = r.returned
    /\ UNCHANGED <<e_pc, wf_vars, r_vars, c_vars, a_vars, s_vars, p_vars>>

\* executor(state) raises: nothing is returned
ExecutorRaises ==
    /\ e_pc = "ready"
    /\ Len(e_calls) < MaxCalls
    /\ \E outcome \in ToolOutcomes :
         LET r == Executor_call(e_state, outcome)
         IN  /\ r.raised
             /\ e_calls' = Append(e_calls,
                   [input |-> e_state, raised |-> TRUE, returned |-> r.returned,
                    input_after |-> r.input_after, invoked |-> r.invoked])
    /\ e_pc' = "raised"
    /\ UNCHANGED <<e_state, wf_vars, r_vars, c_vars, a_vars, s_vars, p_vars>>

NextExecutor == ExecutorReturns \/ ExecutorRaises

SpecExecutor == InitExecutor /\ [][NextExecutor]_vars

----------------------------------------------------------------------------
(* Responder._build_context: nodes/responder.py *)

\* Tool results as _build_context tells them apart: a str, or a dict with
\* some keys.  A results item is a dict that may or may not have a url.
ResultItems ==
    { [title |-> "n"], [url |-> "http://a"], [url |-> "http://b"] }

StrResult(text)  == [type |-> "str", text |-> text]
DictResult(dict) == [type |-> "dict", value |-> dict]

BundleResults ==
    { DictResult([results |-> items, llm_text |-> "digest"]) :
        items \in SeqsUpTo(ResultItems, MaxItems) }

\* results that do not have the bundle shape
OtherResults ==
    { StrResult("res_a"), DictResult([results |-> <<[url |-> "http://a"]>>]) }

ContextEntries ==
    { ExecutedEntry(Task("t1", "tavily_web_search"), r, TRUE) :
        r \in BundleResults \cup OtherResults }
    \cup
    { ExecutedEntry(Task("t2", "tavily_web_search"), r, FALSE) :
        r \in { StrResult("timeout"),
                DictResult([results |-> <<[url |-> "http://b"]>>,
                            llm_text |-> "digest"]) } }

\* isinstance(result, dict) and 'results' in result and 'llm_text' in result
IsBundle(result) ==
    /\ result.type = "dict"
    /\ "results" \in DOMAIN result.value
    /\ "llm_text" \in DOMAIN result.value

\* 'url' in item and item['url']
ItemHasUrl(item) == "url" \in DOMAIN item /\ item.url # ""

\* f"[{url_index}] {item['url']}": two such strings are equal iff index and
\* url both are
Citation(url_index, url) == [index |-> url_index, url |-> url]

\* (mutant) the index advances on every item, with or without a url
RECURSIVE ItemCitations_counts_all(_, _)
ItemCitations_counts_all(items, url_index) ==
    IF items = <<>> THEN <<>>
    ELSE (IF ItemHasUrl(Head(items))
          THEN <<Citation(url_index, Head(items).url)>> ELSE <<>>)
         \o ItemCitations_counts_all(Tail(items), url_index + 1)

\* the inner loop over result['results'], from url_index on
RECURSIVE ItemCitations(_, _)
ItemCitations(items, url_index) ==
    IF items = <<>> THEN <<>>
    ELSE IF ItemHasUrl(Head(items))
         THEN <<Citation(url_index, Head(items).url)>> \o
              ItemCitations(Tail(items), url_index + 1)
         ELSE ItemCitations(Tail(items), url_index)

\* list(dict.fromkeys(xs)): the first occurrence of every element, in order
RECURSIVE DictFromKeys(_)
DictFromKeys(xs) ==
    IF xs = <<>> THEN <<>>
    ELSE LET rest == DictFromKeys(SubSeq(xs, 1, Len(xs) - 1))
             x    == xs[Len(xs)]
         IN  IF \E i \in DOMAIN rest : rest[i] = x THEN rest ELSE Append(rest, x)

\* (mutant) a failed entry leaves the status line alone
FailedParts_status_only(result) == <<[status |-> "Failed"]>>

\* the parts of an entry with success false: "Status: Failed", "Error: {result}"
FailedParts(result) == <<[status |-> "Failed"], [error |-> result]>>

\* the loop over state.executed_tasks: the context parts and the urls list
\* collected, starting with url_index
RECURSIVE ContextLoop(_, _)
ContextLoop(executed, url_index) ==
    IF executed = <<>> THEN [parts |-> <<>>, urls |-> <<>>]
    ELSE
      LET task_info == Head(executed)
          result    == task_info.result
      IN  IF ~task_info.success
          THEN LET rest == ContextLoop(Tail(executed), url_index)
               IN  [parts |-> FailedParts(result) \o rest.parts,
                    urls  |-> rest.urls]
          ELSE IF IsBundle(result)
          THEN LET cites == ItemCitations(result.value.results, url_index)
                   rest  == ContextLoop(Tail(executed), url_index + Len(cites))
               IN  [parts |-> <<[llm_text |-> result.value.llm_text]>> \o rest.parts,
                    urls  |-> cites \o rest.urls]
          ELSE LET rest == ContextLoop(Tail(executed), url_index)
               IN  [parts |-> <<[str |-> result]>> \o rest.parts,
                    urls  |-> rest.urls]

\* Responder._build_context(state): the context, as the parts joined by
\* newlines, and the citation list
Responder_build_context(s) ==
    IF s.plan.direct_response # EmptyText
    THEN [context |-> <<[direct_response |-> s.plan.direct_response]>>,
          urls    |-> <<>>]
    ELSE LET loop == ContextLoop(s.executed_tasks, 1)
         IN  [context |-> <<[overview |-> s.plan.overview]>> \o loop.parts,
              urls    |-> DictFromKeys(loop.urls)]

ContextStates ==
    { AgentState(q, Plan(d = EmptyText, d, EmptyText, <<>>), ex, <<>>, EmptyText,
                 <<[role |-> "user", content |-> q]>>) :
      q \in Queries, d \in PlannerDirectResponses,
      ex \in SeqsUpTo(ContextEntries, MaxExecuted) }

InitContext ==
    /\ WorkflowIdle
    /\ ResponderIdle
    /\ ExecutorIdle
    /\ AppIdle
    /\ SearchIdle
    /\ PlannerIdle
    /\ c_pc = "start"
    /\ c_state \in ContextStates
    /\ c_out = <<>>

BuildContext ==
    /\ c_pc = "start"
    /\ c_out' = Responder_build_context(c_state)
    /\ c_pc' = "done"
    /\ UNCHANGED <<c_state, wf_vars, r_vars, e_vars, a_vars, s_vars, p_vars>>

NextContext == BuildContext

SpecContext == InitContext /\ [][NextContext]_vars

----------------------------------------------------------------------------
(* The chat session: workflow.astream, demo/app.py *)

\* What the graph hands to SearchAgentWorkflow.astream for one node run: the
\* chunks of the model calls made inside the node ("messages" mode), then the
\* node's output ("updates" mode).

\* the planner's structured-output model streams the plan as tool_use input
PlannerStreams ==
    { <<>>,
      <<[kind |-> "list", items |-> <<[type |-> "tool_use", text |-> <<5>>]>>]>> }

\* the chunks of one responder stream are all of one format: plain strings
\* (ChatAnthropic, ChatOpenAI), or lists holding one text item
\* (ChatBedrockConverse)
StrChunk(text) == [kind |-> "str", text |-> text]

TextChunk(text) == [kind |-> "list", items |-> <<[type |-> "text", text |-> text]>>]

ResponderStreams ==
    { <<>>,
      <<StrChunk(<<7>>)>>,
      <<StrChunk(EmptyText), StrChunk(<<7>>)>>,
      <<TextChunk(<<8, 9>>)>>,
      <<TextChunk(<<8, 9>>), TextChunk(<<8, 9>>)>> }

InProgress(n, token) == [node |-> n, status |-> "in_progress", token |-> token]

Update(n, output) == [node |-> n, status |-> "", update |-> output]

\* astream, "messages" mode: only a non-empty list content is looked at, and
\* of it only content[0]; a tool_use item gives its input, a text item its
\* text, and an empty token gives no event
RECURSIVE astream_messages(_, _)
astream_messages(n, stream) ==
    IF stream = <<>> THEN <<>>
    ELSE LET chunk == Head(stream)
         IN  (IF /\ chunk.kind = "list"
                 /\ chunk.items # <<>>
                 /\ chunk.items[1].type \in {"tool_use", "text"}
                 /\ chunk.items[1].text # EmptyText
              THEN <<InProgress(n, chunk.items[1].text)>> ELSE <<>>)
             \o astream_messages(n, Tail(stream))

Event(type, content) == [type |-> type, content |-> content]

\* (mutant) the whole response is emitted whether or not tokens were streamed
responder_update_yields_always(update, streaming) ==
    <<Event("response_token", update.response)>>

\* the responder's update: if not streaming_response and "response" in ..
responder_update_yields(update, streaming) ==
    IF ~streaming THEN <<Event("response_token", update.response)>> ELSE <<>>

\* run_workflow, the body of its loop for one event of workflow.astream
run_workflow_event(ev, fs, streaming) ==
    IF ev.node = "planner"
    THEN IF ev.status = "in_progress"
         THEN [yields |-> <<Event("plan_token", ev.token)>>,
               final_state |-> fs, streaming_response |-> streaming]
         ELSE [yields |-> <<Event("plan_complete", ev.update.plan)>>,
               final_state |-> [fs EXCEPT !.plan = ev.update.plan],
               streaming_response |-> streaming]
    ELSE IF ev.node = "executor"
    THEN [yields |-> <<Event("execute_progress", ev.update.executed_tasks),
                       Event("execute_remaining", ev.update.remaining_tasks)>>,
          final_state |-> [fs EXCEPT
                             !.executed_tasks  = ev.update.executed_tasks,
                             !.remaining_tasks = ev.update.remaining_tasks],
          streaming_response |-> streaming]
    ELSE IF ev.status = "in_progress"
    THEN [yields |-> <<Event("response_token", ev.token)>>,
          final_state |-> fs, streaming_response |-> TRUE]
    ELSE [yields |-> responder_update_yields(ev.update, streaming),
          final_state |-> fs, streaming_response |-> streaming]

RECURSIVE run_workflow_loop(_, _, _)
run_workflow_loop(evs, fs, streaming) ==
    IF evs = <<>>
    THEN [yields |-> <<>>, final_state |-> fs, streaming_response |-> streaming]
    ELSE LET one  == run_workflow_event(Head(evs), fs, streaming)
             rest == run_workflow_loop(Tail(evs), one.final_state,
                                       one.streaming_response)
         IN  [rest EXCEPT !.yields = one.yields \o rest.yields]

\* (mutant) the loop ends without the closing event
run_workflow_final_none(fs) == <<>>

\* yield {"type": "final", "content": final_state}
run_workflow_final(fs) == <<Event("final", fs)>>

\* process_workflow: response += event["content"] for each response_token
RECURSIVE process_workflow_response(_, _)
process_workflow_response(response, events) ==
    IF events = <<>> THEN response
    ELSE process_workflow_response(
             IF Head(events).type = "response_token"
             THEN response \o Head(events).content ELSE response,
             Tail(events))

\* (mutant) the assistant entry takes the place of the last entry
process_workflow_append_replaces(history, response) ==
    SubSeq(history, 1, Len(history) - 1) \o
        <<[role |-> "assistant", content |-> response]>>

\* message_history.append({"role": "assistant", "content": response})
process_workflow_append(history, response) ==
    Append(history, [role |-> "assistant", content |-> response])

\* the plans of the session's turns: no task, one task of the registered
\* tool, or one task of a tool that is not registered
AppPlans ==
    { pl \in PlannerPlans :
        pl.tasks \in {<<>>, <<Task("t1", "tavily_web_search")>>,
                      <<Task("t3", "brave_web_search")>>} }

AppRounds == Cardinality({i \in DOMAIN a_events : a_events[i].type = "plan_complete"})

InitApp ==
    /\ WorkflowIdle
    /\ ResponderIdle
    /\ ExecutorIdle
    /\ ContextIdle
    /\ SearchIdle
    /\ PlannerIdle
    /\ a_pc = "chat"
    /\ a_session = initial_state     \* AgentState.initial_state()
    /\ a_state = initial_state
    /\ a_final_state = initial_state
    /\ a_streaming = FALSE
    /\ a_events = <<>>
    /\ a_response = EmptyText
    /\ a_before = <<>>
    /\ a_turns = 0

\* a prompt is entered: input and a user entry are set on the session state,
\* run_workflow copies it to final_state and starts the graph on it
ChatInput ==
    /\ a_pc \in {"chat", "done", "failed"}
    /\ a_turns < MaxTurns
    /\ \E prompt \in Queries :
         a_session' = [a_session EXCEPT
                         !.input = prompt,
                         !.message_history =
                             Append(@, [role |-> "user", content |-> prompt])]
    /\ a_before' = a_session.message_history
    /\ a_state' = a_session'
    /\ a_final_state' = a_session'
    /\ a_streaming' = FALSE
    /\ a_events' = <<>>
    /\ a_response' = EmptyText
    /\ a_turns' = a_turns + 1
    /\ a_pc' = "planner"             \* set_entry_point("planner")
    /\ UNCHANGED <<wf_vars, r_vars, e_vars, c_vars, s_vars, p_vars>>

\* the events of one node run go through run_workflow and process_workflow
Deliver(evs) ==
    LET r == run_workflow_loop(evs, a_final_state, a_streaming)
    IN  /\ a_events' = a_events \o r.yields
        /\ a_final_state' = r.final_state
        /\ a_streaming' = r.streaming_response
        /\ a_response' = process_workflow_response(a_response, r.yields)

AppPlanner ==
    /\ a_pc = "planner"
    /\ AppRounds < MaxAppRounds
    /\ \E plan \in AppPlans, stream \in PlannerStreams :
         /\ a_state' = Planner_call(a_state, plan)
         /\ Deliver(astream_messages("planner", stream)
                    \o <<Update("planner", a_state')>>)
    /\ a_pc' = PlannerEdges(check_execution_needed(a_state'))
    /\ UNCHANGED <<a_session, a_before, a_turns, wf_vars, r_vars, e_vars, c_vars, s_vars, p_vars>>

AppExecutor ==
    /\ a_pc = "executor"
    /\ \E outcome \in ToolOutcomes :
         LET r == Executor_call(a_state, outcome)
         IN  /\ ~r.raised
             /\ a_state' = r.returned
             /\ Deliver(<<Update("executor", r.returned)>>)
    /\ a_pc' = ExecutorEdges(check_next_step(a_state'))
    /\ UNCHANGED <<a_session, a_before, a_turns, wf_vars, r_vars, e_vars, c_vars, s_vars, p_vars>>

AppResponder ==
    /\ a_pc = "responder"
    /\ \E stream \in ResponderStreams :
         LET final == Last(Responder_call(a_state, stream).yields)
             chunks == IF a_state.plan.direct_response # EmptyText
                       THEN <<>> ELSE stream
         IN  /\ a_state' = [a_state EXCEPT
                              !.response = final.response,
                              !.message_history = final.message_history]
             /\ Deliver(astream_messages("responder", chunks)
                        \o <<Update("responder", final)>>)
    /\ a_pc' = ResponderEdge
    /\ UNCHANGED <<a_session, a_before, a_turns, wf_vars, r_vars, e_vars, c_vars, s_vars, p_vars>>

\* the graph is through: run_workflow yields its closing event and ends,
\* process_workflow appends the assistant entry to the session's history
WorkflowCompletes ==
    /\ a_pc = "END"
    /\ a_events' = a_events \o run_workflow_final(a_final_state)
    /\ a_session' = [a_session EXCEPT
                       !.message_history = process_workflow_append(@, a_response)]
    /\ a_pc' = "done"
    /\ UNCHANGED <<a_state, a_final_state, a_streaming, a_response, a_before,
                   a_turns, wf_vars, r_vars, e_vars, c_vars, s_vars, p_vars>>

\* A node raises: the exception leaves workflow.astream, run_workflow and
\* process_workflow, and the chat interface reports it (st.error).
AppPlannerRaises ==
    /\ a_pc = "planner"
    /\ AppRounds < MaxAppRounds
    /\ \E stream \in PlannerStreams :
         Deliver(astream_messages("planner", stream))
    /\ a_pc' = "failed"
    /\ UNCHANGED <<a_session, a_state, a_before, a_turns,
                   wf_vars, r_vars, e_vars, c_vars, s_vars, p_vars>>

AppExecutorRaises ==
    /\ a_pc = "executor"
    /\ \E outcome \in ToolOutcomes : Executor_call(a_state, outcome).raised
    /\ a_pc' = "failed"
    /\ UNCHANGED <<a_session, a_state, a_final_state, a_streaming, a_events,
                   a_response, a_before, a_turns, wf_vars, r_vars, e_vars, c_vars, s_vars, p_vars>>

\* the model stream raises after some of its chunks
AppResponderRaises ==
    /\ a_pc = "responder"
    /\ a_state.plan.direct_response = EmptyText
    /\ \E stream \in ResponderStreams :
         Deliver(astream_messages("responder", stream))
    /\ a_pc' = "failed"
    /\ UNCHANGED <<a_session, a_state, a_before, a_turns,
                   wf_vars, r_vars, e_vars, c_vars, s_vars, p_vars>>

NextApp ==
    \/ ChatInput
    \/ AppPlanner
    \/ AppExecutor
    \/ AppResponder
    \/ WorkflowCompletes
    \/ AppPlannerRaises
    \/ AppExecutorRaises
    \/ AppResponderRaises

SpecApp == InitApp /\ [][NextApp]_vars

----------------------------------------------------------------------------
(* TavilySearch.get_search_results: tools/web_search.py *)

max_workers_cap == 3

SearchQueries == {"qa", "qb"}

\* the queries argument: a list of strings, or one string
SearchInputs ==
    { [kind |-> "list", items |-> qs] : qs \in SeqsUpTo(SearchQueries, MaxQueries) }
    \cup { [kind |-> "str", text |-> q] : q \in SearchQueries }

\* what TAVILY_CLIENT.search returns: a dict with a list of results
TavilyResponses == { <<>>, <<[title |-> "n", content |-> "c", url |-> "u"]>> }

SearchErrors == [msg : ToolErrors]

\* Text of the tool result, as the sequence of its pieces.
RECURSIVE Join(_, _)
Join(parts, sep) ==
    IF parts = <<>> THEN <<>>
    ELSE IF Len(parts) = 1 THEN Head(parts)
    ELSE Head(parts) \o <<sep>> \o Join(Tail(parts), sep)

RECURSIVE FormatResults(_)
FormatResults(results) ==
    IF results = <<>> THEN <<>>
    ELSE <<<< "Title: ", Head(results).title, "\n", "Description: ",
              Head(results).content, "\n", "URL: ", Head(results).url, "\n" >>>>
         \o FormatResults(Tail(results))

\* search_and_format(query) when self.search(query) returned `results`
search_and_format(query, results) ==
    Join(<< <<"Results for: ", query>> >> \o FormatResults(results), "\n")

\* (mutant) the blocks are put together last query first
Assemble_reversed(blocks) ==
    Join([i \in DOMAIN blocks |-> blocks[Len(blocks) + 1 - i]], "\n\n")

\* list(executor.map(..)) yields the blocks in the order of the queries;
\* "\n\n".join(all_results)
Assemble(blocks) == Join(blocks, "\n\n")

\* (mutant) a sub-query that raised leaves an empty block behind
OnSubQueryError_swallows(e) == [kind |-> "ok", results |-> <<>>]

\* TavilySearch.search: except Exception as e: ...; raise e
OnSubQueryError(e) == [kind |-> "raised", exception |-> e]

\* what the future of a finished search_and_format call holds: its block's
\* results, or the exception that search let through
Future(status) ==
    IF status.kind = "failed" THEN OnSubQueryError(status.exception) ELSE status

Queued  == [kind |-> "queued"]
Running == [kind |-> "running"]

InitSearch ==
    /\ WorkflowIdle
    /\ ResponderIdle
    /\ ExecutorIdle
    /\ ContextIdle
    /\ AppIdle
    /\ PlannerIdle
    /\ s_pc = "start"
    /\ s_input \in SearchInputs
    /\ s_queries = <<>>
    /\ s_status = <<>>
    /\ s_reordered = FALSE
    /\ s_calls = <<>>
    /\ s_out = <<>>

\* get_search_results is entered with a non-empty list (or a string): the
\* pool is created and executor.map submits every query
SearchStarts ==
    /\ s_pc = "start"
    /\ LET queries == IF s_input.kind = "str" THEN <<s_input.text>>
                      ELSE s_input.items
       IN  /\ queries # <<>>
           /\ s_queries' = queries
           /\ s_status' = [i \in DOMAIN queries |-> Queued]
           /\ s_calls' = [i \in DOMAIN queries |-> 0]
    /\ s_pc' = "running"
    /\ UNCHANGED <<s_input, s_reordered, s_out, wf_vars, r_vars, e_vars, c_vars, a_vars, p_vars>>

\* with an empty list ThreadPoolExecutor(max_workers=0) raises ValueError
SearchStartsEmpty ==
    /\ s_pc = "start"
    /\ s_input.kind = "list" /\ s_input.items = <<>>
    /\ s_pc' = "raised"
    /\ s_out' = [kind |-> "raised", exception |-> [msg |-> "max_workers"]]
    /\ UNCHANGED <<s_input, s_queries, s_status, s_reordered, s_calls,
                   wf_vars, r_vars, e_vars, c_vars, a_vars, p_vars>>

\* (mutant) one pool thread per query
max_workers_uncapped(queries) == Len(queries)

\* ThreadPoolExecutor(max_workers=min(len(queries), 3))
max_workers(queries) == Min(Len(queries), max_workers_cap)

RunningQueries == {i \in DOMAIN s_status : s_status[i].kind = "running"}

\* a pool thread takes the next submitted call off the work queue
WorkerStarts ==
    /\ s_pc = "running"
    /\ Cardinality(RunningQueries) < max_workers(s_queries)
    /\ \E i \in DOMAIN s_status :
         /\ s_status[i].kind = "queued"
         /\ \A j \in 1..(i - 1) : s_status[j].kind # "queued"
         /\ s_status' = [s_status EXCEPT ![i] = Running]
         /\ s_calls' = [s_calls EXCEPT ![i] = @ + 1]
    /\ UNCHANGED <<s_pc, s_input, s_queries, s_reordered, s_out,
                   wf_vars, r_vars, e_vars, c_vars, a_vars, p_vars>>

EarlierUnfinished(i) == \E j \in 1..(i - 1) : s_status[j].kind \in {"queued", "running"}

\* self.search(query) returns in some pool thread
SubQueryReturns ==
    /\ s_pc = "running"
    /\ \E i \in RunningQueries, results \in TavilyResponses :
         /\ s_status' = [s_status EXCEPT ![i] = [kind |-> "ok", results |-> results]]
         /\ s_reordered' = (s_reordered \/ EarlierUnfinished(i))
    /\ UNCHANGED <<s_pc, s_input, s_queries, s_calls, s_out,
                   wf_vars, r_vars, e_vars, c_vars, a_vars, p_vars>>

\* self.search(query) raises in some pool thread
SubQueryRaises ==
    /\ s_pc = "running"
    /\ \E i \in RunningQueries, e \in SearchErrors :
         /\ s_status' = [s_status EXCEPT ![i] = [kind |-> "failed", exception |-> e]]
         /\ s_reordered' = (s_reordered \/ EarlierUnfinished(i))
    /\ UNCHANGED <<s_pc, s_input, s_queries, s_calls, s_out,
                   wf_vars, r_vars, e_vars, c_vars, a_vars, p_vars>>

\* list(executor.map(..)) has taken every result: the joined text is returned
SearchReturns ==
    /\ s_pc = "running"
    /\ \A i \in DOMAIN s_status : Future(s_status[i]).kind = "ok"
    /\ s_out' = [kind |-> "returned",
                 text |-> Assemble([i \in DOMAIN s_queries |->
                              search_and_format(s_queries[i],
                                                Future(s_status[i]).results)])]
    /\ s_pc' = "returned"
    /\ UNCHANGED <<s_input, s_queries, s_status, s_reordered, s_calls,
                   wf_vars, r_vars, e_vars, c_vars, a_vars, p_vars>>

\* list(executor.map(..)) reaches, in query order, a call that raised: its
\* exception leaves get_search_results
SearchRaises ==
    /\ s_pc = "running"
    /\ \E i \in DOMAIN s_status :
         /\ Future(s_status[i]).kind = "raised"
         /\ \A j \in 1..(i - 1) : Future(s_status[j]).kind = "ok"
         /\ s_out' = [kind |-> "raised", exception |-> Future(s_status[i]).exception]
    /\ s_pc' = "raised"
    /\ UNCHANGED <<s_input, s_queries, s_status, s_reordered, s_calls,
                   wf_vars, r_vars, e_vars, c_vars, a_vars, p_vars>>

NextSearch ==
    \/ SearchStarts
    \/ SearchStartsEmpty
    \/ WorkerStarts
    \/ SubQueryReturns
    \/ SubQueryRaises
    \/ SearchReturns
    \/ SearchRaises

SpecSearch == InitSearch /\ [][NextSearch]_vars

----------------------------------------------------------------------------
(* One Planner invocation: nodes/planner.py *)

\* datetime.now(timezone.utc).isoformat() at the time of the invocation
Clock == {"T1", "T2"}

\* The prompt value handed to the model: the system prompt with the time and
\* the tool descriptions, the instruction with the query, the conversation.
Planner_build_messages(s, now) ==
    [system       |-> "SYSTEM_PROMPT",
     datetime     |-> now,
     tool_desc    |-> RegisteredTools,
     query        |-> s.input,
     conversation |-> HistoryMessages(s.message_history) \o <<HumanMessage(s.input)>>]

\* Events of self.model.astream_events(messages, version='v2').
ChatModelStream(content) == [event |-> "on_chat_model_stream", content |-> content]

ChainEnd(output) == [event |-> "on_chain_end", output |-> output]

\* the events before the last one: streamed chunks of the tool call that
\* carries the plan (some with an empty input), chunks of text or without
\* content, and events of other kinds
PlannerBodyEvents ==
    { ChatModelStream(<<[type |-> "tool_use", text |-> <<5>>]>>),
      ChatModelStream(<<[type |-> "tool_use", text |-> <<6>>]>>),
      ChatModelStream(<<[type |-> "tool_use", text |-> EmptyText]>>),
      ChatModelStream(<<[type |-> "text", text |-> <<7>>]>>),
      ChatModelStream(<<>>),
      [event |-> "on_parser_start"] }

\* a model run: its events, then the end of the chain with the parsed Plan,
\* or an exception of the model call or of the parsing
PlannerRuns ==
    { [body |-> b, end |-> e] :
        b \in SeqsUpTo(PlannerBodyEvents, MaxPlanEvents),
        e \in {[kind |-> "raise"]} \cup {[kind |-> "plan", plan |-> pl] : pl \in AppPlans} }

StateYield(st) == [type |-> "state", state |-> st]

\* one on_chat_model_stream event: yield input_text, then
\* {**state.model_dump(), "response": input_text}
PlannerOnStream(s, ev) ==
    IF /\ ev.event = "on_chat_model_stream"
       /\ ev.content # <<>>
       /\ ev.content[1].type = "tool_use"
       /\ ev.content[1].text # EmptyText
    THEN <<Token(ev.content[1].text),
           StateYield([s EXCEPT !.response = ev.content[1].text])>>
    ELSE <<>>

RECURSIVE PlannerBodyYields(_, _)
PlannerBodyYields(s, body) ==
    IF body = <<>> THEN <<>>
    ELSE PlannerOnStream(s, Head(body)) \o PlannerBodyYields(s, Tail(body))

\* (mutant) the state with the plan is yielded a second time
PlannerOnChainEnd_twice(s, end) ==
    IF end.kind = "plan"
    THEN <<StateYield(Planner_call(s, end.plan)), StateYield(Planner_call(s, end.plan))>>
    ELSE <<>>

\* the on_chain_end event: yield {**state.model_dump(), "plan": plan}
PlannerOnChainEnd(s, end) ==
    IF end.kind = "plan" THEN <<StateYield(Planner_call(s, end.plan))>> ELSE <<>>

\* Planner.__call__: what it yields, what it submitted, whether it raised
Planner_stream(s, run, now) ==
    [yields    |-> PlannerBodyYields(s, run.body) \o PlannerOnChainEnd(s, run.end),
     returned  |-> <<>>,
     submitted |-> <<Planner_build_messages(s, now)>>,
     raised    |-> run.end.kind = "raise"]

\* Planner.acall: ainvoke, then {**state.model_dump(), "plan": result}
Planner_acall(s, run, now) ==
    [yields    |-> <<>>,
     returned  |-> IF run.end.kind = "plan"
                   THEN <<Planner_call(s, run.end.plan)>> ELSE <<>>,
     submitted |-> <<Planner_build_messages(s, now)>>,
     raised    |-> run.end.kind = "raise"]

\* the states the planner node is entered with again: an Executor call whose
\* tool raised has returned and check_next_step has answered "plan"
ReplanStates ==
    { Executor_call(es, o).returned :
        es \in {x \in ExecutorStates :
                  Head(x.plan.tasks).tool_name \in RegisteredTools},
        o \in {x \in ToolOutcomes : x.kind = "raise"} }

PlannerStates == TurnStates \cup ReplanStates

PlannerModes == {"__call__", "acall"}

InitPlanner ==
    /\ WorkflowIdle
    /\ ResponderIdle
    /\ ExecutorIdle
    /\ ContextIdle
    /\ AppIdle
    /\ SearchIdle
    /\ p_pc = "start"
    /\ p_mode \in PlannerModes
    /\ p_state \in PlannerStates
    /\ p_events \in PlannerRuns
    /\ p_mode = "acall" => p_events.body = <<>>
    /\ p_out = <<>>

PlannerInvokeCall ==
    /\ p_pc = "start" /\ p_mode = "__call__"
    /\ \E now \in Clock : p_out' = Planner_stream(p_state, p_events, now)
    /\ p_pc' = "done"
    /\ UNCHANGED <<p_mode, p_state, p_events,
                   wf_vars, r_vars, e_vars, c_vars, a_vars, s_vars>>

PlannerInvokeAcall ==
    /\ p_pc = "start" /\ p_mode = "acall"
    /\ \E now \in Clock : p_out' = Planner_acall(p_state, p_events, now)
    /\ p_pc' = "done"
    /\ UNCHANGED <<p_mode, p_state, p_events,
                   wf_vars, r_vars, e_vars, c_vars, a_vars, s_vars>>

NextPlanner == PlannerInvokeCall \/ PlannerInvokeAcall

SpecPlanner == InitPlanner /\ [][NextPlanner]_vars

----------------------------------------------------------------------------
(* Properties *)

Ran(n) == trace # <<>> /\ Last(trace) = n

\* C1: after the planner has run, the next node is the executor iff the plan
\* has requires_tool set and at least one task; otherwise it is the responder.
C1_RoutingAfterPlanner ==
    (Ran("planner") /\ node # "raised") =>
        /\ node \in {"executor", "responder"}
        /\ (node = "executor") <=>
               (state.plan.requires_tool /\ Len(state.plan.tasks) > 0)

C1_Witness ==
    /\ Ran("planner") /\ node = "responder"
    /\ ~state.plan.requires_tool /\ state.plan.tasks # <<>>

\* C2: after an Executor call that returned, the next node is the planner iff
\* remaining_tasks is non-empty, otherwise the responder, whatever plan.tasks
\* still holds.
C2_RoutingAfterExecutor ==
    (Ran("executor") /\ node # "raised") =>
        /\ node \in {"planner", "responder"}
        /\ (node = "planner") <=> (state.remaining_tasks # <<>>)

C2_Witness ==
    /\ Ran("executor") /\ node = "responder"
    /\ state.remaining_tasks = <<>> /\ state.plan.tasks # <<>>

\* C3: every Executor call on a state with a non-empty plan.tasks removes
\* exactly the head task and makes exactly one tool invocation.
C3_OneTaskPerCall ==
    \A i \in DOMAIN e_calls :
        LET c == e_calls[i]
        IN  c.input.plan.tasks # <<>> =>
                /\ Len(c.invoked) = 1
                /\ c.invoked[1].task = Head(c.input.plan.tasks)
                /\ c.input_after.plan.tasks = Tail(c.input.plan.tasks)
                /\ ~c.raised => c.returned.plan.tasks = Tail(c.input.plan.tasks)

ToolRaised(c) == c.invoked # <<>> /\ c.invoked[1].outcome.kind = "raise"

ToolReturned(c) == c.invoked # <<>> /\ c.invoked[1].outcome.kind = "return"

\* C4: when the tool invocation raises, the Executor call returns normally;
\* the returned executed_tasks records the task with success = FALSE and the
\* error text as result, and the task is in the returned remaining_tasks.
C4_FailureRequeue ==
    \A i \in DOMAIN e_calls :
        LET c == e_calls[i]
            task == Head(c.input.plan.tasks)
        IN  ToolRaised(c) =>
                /\ ~c.raised
                /\ \E k \in DOMAIN c.returned.executed_tasks :
                       c.returned.executed_tasks[k] =
                           [task |-> task, success |-> FALSE,
                            result |-> c.invoked[1].outcome.exception.msg]
                /\ \E k \in DOMAIN c.returned.remaining_tasks :
                       c.returned.remaining_tasks[k] = task

C4_Witness ==
    \E i \in DOMAIN e_calls :
        /\ ToolRaised(e_calls[i])
        /\ e_calls[i].input.remaining_tasks = <<>>

\* C5: when the tool invocation returns a result, the returned executed_tasks
\* has the entry {task, result, success = TRUE} and the task is not in the
\* returned remaining_tasks.
C5_SuccessRecord ==
    \A i \in DOMAIN e_calls :
        LET c == e_calls[i]
            task == Head(c.input.plan.tasks)
        IN  ToolReturned(c) =>
                /\ ~c.raised
                /\ \E k \in DOMAIN c.returned.executed_tasks :
                       c.returned.executed_tasks[k] =
                           [task |-> task, success |-> TRUE,
                            result |-> c.invoked[1].outcome.value]
                /\ \A k \in DOMAIN c.returned.remaining_tasks :
                       c.returned.remaining_tasks[k] # task

C5_Witness ==
    \E i \in DOMAIN e_calls :
        /\ ToolReturned(e_calls[i])
        /\ e_calls[i].input.remaining_tasks = <<Head(e_calls[i].input.plan.tasks)>>

ExecutorCallsReturned == Cardinality({i \in DOMAIN exec_log : ~exec_log[i].raised})

\* C6: after the k-th Executor call of a turn, executed_tasks holds k entries.
C6_ExecutedAccumulates ==
    Len(state.executed_tasks) = ExecutorCallsReturned

\* C7: after a successful task, control does not go to the responder while
\* the plan still holds tasks that were never attempted.
C7_AllTasksBeforeResponder ==
    (Ran("executor") /\ node = "responder" /\ ToolReturned(Last(exec_log))) =>
        state.plan.tasks = <<>>

\* C8: a head task whose tool_name is not registered makes the Executor call
\* return a state that records the task as failed and does not requeue it,
\* and the turn goes on to the responder.
C8_UnresolvedToolIsTaskFailure ==
    (Ran("executor") /\ Last(exec_log).task.tool_name \notin RegisteredTools) =>
        /\ ~Last(exec_log).raised
        /\ node = "responder"
        /\ \E k \in DOMAIN state.executed_tasks :
               /\ state.executed_tasks[k].task = Last(exec_log).task
               /\ ~state.executed_tasks[k].success
        /\ state.remaining_tasks = <<>>

TokenTexts(ys) == [i \in 1..Len(ys) |-> ys[i].text]

\* C9: with a non-empty direct_response, __call__ yields text chunks, each of
\* 1 to 100 characters, whose concatenation is direct_response, and then the
\* terminal event, whose response is direct_response.
C9_DirectChunkRoundTrip ==
    (r_pc = "done" /\ r_mode = "__call__"
       /\ r_state.plan.direct_response # EmptyText) =>
        LET ys == r_out.yields
            n  == Len(ys)
            chunks == SubSeq(ys, 1, n - 1)
        IN  /\ n >= 2
            /\ \A i \in 1..(n - 1) :
                   /\ chunks[i].type = "token"
                   /\ Len(chunks[i].text) >= 1
                   /\ Len(chunks[i].text) <= 100
            /\ Concat(TokenTexts(chunks)) = r_state.plan.direct_response
            /\ ys[n].type = "final"
            /\ ys[n].response = r_state.plan.direct_response

C9_Witness ==
    /\ r_pc = "done" /\ r_mode = "__call__"
    /\ Len(r_state.plan.direct_response) > 2 * 100
    /\ Len(r_out.yields) = 4

\* the response an invocation produced
ProducedResponse ==
    IF r_mode = "acall" THEN r_out.returned[1].response
    ELSE IF r_mode = "__call__" THEN Last(r_out.yields).response
    ELSE Concat(TokenTexts(SelectSeq(r_out.yields, LAMBDA y : y.type = "token")))

\* C10: in every invocation mode, a non-empty direct_response is produced as
\* the response and nothing is submitted to the model.
C10_NoModelCallOnDirect ==
    (r_pc = "done" /\ r_state.plan.direct_response # EmptyText) =>
        /\ r_out.submitted = <<>>
        /\ ProducedResponse = r_state.plan.direct_response

IsToken(y) == y.type = "token"
IsFinal(y) == y.type = "final"

\* the text of all tokens an invocation emitted, in emission order
EmittedText(ys) == Concat(TokenTexts(SelectSeq(ys, IsToken)))

\* C11: every streaming invocation (__call__ and astream, direct and
\* synthesis path) emits exactly one terminal event, as its last item,
\* carrying the full response and the updated message_history.
C11_OneTerminalEventLast ==
    (r_pc = "done" /\ r_mode \in {"__call__", "astream"}) =>
        LET ys == r_out.yields
        IN  /\ Len(SelectSeq(ys, IsFinal)) = 1
            /\ IsFinal(Last(ys))
            /\ Last(ys).response = EmittedText(ys)
            /\ Len(Last(ys).message_history) = Len(r_state.message_history) + 1

\* C12: the message_history of the terminal event is the input state's
\* message_history followed by one assistant entry whose content is the
\* concatenation of the tokens emitted; the input state is left as it was.
C12_HistoryAppendOnly ==
    (r_pc = "done" /\ r_mode \in {"__call__", "astream"}) =>
        LET ys == r_out.yields
        IN  \A k \in DOMAIN ys :
                IsFinal(ys[k]) =>
                    /\ ys[k].message_history =
                           r_state.message_history \o
                           <<[role |-> "assistant", content |-> EmittedText(ys)]>>
                    /\ r_out.input_after = r_state

C12_Witness ==
    /\ r_pc = "done" /\ r_mode = "__call__"
    /\ r_state.plan.direct_response = EmptyText
    /\ Len(r_state.message_history) = 3
    /\ Len(SelectSeq(r_out.yields, IsToken)) >= 2
    /\ IsFinal(Last(r_out.yields))

\* the urls of the results items of the successful bundle results, in order
RECURSIVE ItemUrls(_)
ItemUrls(items) ==
    IF items = <<>> THEN <<>>
    ELSE (IF ItemHasUrl(Head(items)) THEN <<Head(items).url>> ELSE <<>>)
         \o ItemUrls(Tail(items))

RECURSIVE SourceUrls(_)
SourceUrls(executed) ==
    IF executed = <<>> THEN <<>>
    ELSE (IF Head(executed).success /\ IsBundle(Head(executed).result)
          THEN ItemUrls(Head(executed).result.value.results) ELSE <<>>)
         \o SourceUrls(Tail(executed))

FirstIndex(xs, x) == CHOOSE i \in DOMAIN xs : xs[i] = x /\ \A j \in 1..(i - 1) : xs[j] # x

CitedUrls == [i \in DOMAIN c_out.urls |-> c_out.urls[i].url]

\* C13: the citation list holds every url of the successful bundle results
\* exactly once, in first-seen order.
C13_CitationDedup ==
    (c_pc = "done" /\ c_state.plan.direct_response = EmptyText) =>
        LET source == SourceUrls(c_state.executed_tasks)
            cited  == CitedUrls
        IN  /\ \A i, j \in DOMAIN cited : cited[i] = cited[j] => i = j
            /\ {cited[i] : i \in DOMAIN cited} = {source[i] : i \in DOMAIN source}
            /\ \A i, j \in DOMAIN cited :
                   i < j => FirstIndex(source, cited[i]) < FirstIndex(source, cited[j])

\* C14: in a turn whose first plan sends the run to the Executor and whose
\* Executor call returns with remaining_tasks empty, the nodes that run are
\* planner, executor, responder, once each and in that order, and the turn
\* then ends; the planner is not re-entered.
C14_NoCyclingWhenNothingRemains ==
    (/\ Len(trace) >= 2
     /\ trace[1] = "planner" /\ trace[2] = "executor"
     /\ ~exec_log[1].raised /\ exec_log[1].remaining = <<>>) =>
        /\ Len(trace) <= 3
        /\ Count(trace, "planner") = 1 /\ Count(trace, "executor") = 1
        /\ Len(trace) = 2 => node = "responder"
        /\ Len(trace) = 3 => trace[3] = "responder" /\ node \in {"END", "raised"}

C14_Witness ==
    /\ trace = <<"planner", "executor", "responder">>
    /\ exec_log[1].remaining = <<>> /\ ToolReturned(exec_log[1])
    /\ node = "END"

\* every planner run so far yielded a plan that sent the run to the Executor
EveryRoundRequiresTool ==
    \A i \in DOMAIN trace :
        trace[i] = "planner" =>
            IF i < Len(trace) THEN trace[i + 1] = "executor" ELSE node = "executor"

\* C15: while every planning round yields a tool-requiring plan with tasks
\* and every tool invocation raises, the run alternates planner, executor,
\* planner, ... and never reaches the Responder nor ends.
C15_NoIterationCap ==
    (/\ EveryRoundRequiresTool
     /\ \A k \in DOMAIN exec_log : ToolRaised(exec_log[k])) =>
        /\ \A i \in DOMAIN trace :
               trace[i] = (IF i % 2 = 1 THEN "planner" ELSE "executor")
        /\ node = (IF Len(trace) % 2 = 0 THEN "planner" ELSE "executor")

C15_Witness ==
    /\ EveryRoundRequiresTool
    /\ Len(exec_log) >= 2
    /\ \A k \in DOMAIN exec_log : ToolRaised(exec_log[k])
    /\ node = "planner"

\* C18: the Responder runs at most once in a turn, no node runs after it,
\* and the run leaves it only for the end state (or with its exception).
C18_ResponderTerminal ==
    \A i \in DOMAIN trace :
        trace[i] = "responder" =>
            /\ i = Len(trace)
            /\ node = (IF raised_by = "responder" THEN "raised" ELSE "END")

C18_Witness ==
    /\ Ran("responder") /\ node = "END" /\ raised_by = "none"
    /\ Count(trace, "planner") >= 2

\* C19: when the Planner raises, the turn is over with the error: that
\* planner run is the last node run of the turn, so the Planner is not
\* retried and neither the Executor nor the Responder runs afterwards.
C19_PlanningFailureFatal ==
    raised_by = "planner" =>
        /\ node = "raised"
        /\ Last(trace) = "planner"
        /\ ~(ENABLED Next)

C19_Witness ==
    /\ raised_by = "planner" /\ node = "raised"
    /\ Count(trace, "planner") >= 2

\* the tasks of the plan the first Executor call was made on
FirstPlanTasks == e_calls[1].input.plan.tasks

\* C20: for a plan with N tasks, the i-th of N successive Executor calls
\* (each on the state the previous one returned) invokes the tool of task i
\* and nothing else, and returns with plan.tasks the suffix after task i.
C20_TaskFIFO ==
    e_calls # <<>> =>
        \A i \in 1..Min(Len(FirstPlanTasks), Len(e_calls)) :
            LET c == e_calls[i]
            IN  /\ Len(c.invoked) = 1
                /\ c.invoked[1].task = FirstPlanTasks[i]
                /\ c.invoked[1].tool = FirstPlanTasks[i].tool_name
                /\ ~c.raised
                /\ c.returned.plan.tasks =
                       SubSeq(FirstPlanTasks, i + 1, Len(FirstPlanTasks))

EventsOfType(t) == {i \in DOMAIN a_events : a_events[i].type = t}

\* C16: when the workflow of a turn has completed without raising, the
\* events run_workflow yielded hold exactly one "final" event and it is the
\* last one, after every event of the other five types; while the workflow
\* runs, and after it raised, no "final" event has been yielded.
C16_FinalIsSoleEndSignal ==
    /\ a_pc = "done" =>
          /\ EventsOfType("final") = {Len(a_events)}
          /\ \A i \in 1..(Len(a_events) - 1) :
                a_events[i].type \in {"plan_token", "plan_complete",
                                      "execute_progress", "execute_remaining",
                                      "response_token"}
    /\ a_pc \in {"planner", "executor", "responder", "END", "failed"} =>
          EventsOfType("final") = {}

C16_Witness ==
    /\ a_pc = "done"
    /\ EventsOfType("execute_progress") # {}
    /\ Cardinality(EventsOfType("response_token")) >= 2
    /\ EventsOfType("plan_token") # {}

\* C17: after a turn entered through the chat input that completed without
\* error, the session's message_history is the history before the turn
\* followed by the user entry with the query and the assistant entry with the
\* full response text, which on the direct-answer path is plan.direct_response.
C17_TwoEntriesPerTurn ==
    a_pc = "done" =>
        /\ a_session.message_history =
               a_before \o <<[role |-> "user", content |-> a_session.input],
                             [role |-> "assistant", content |-> a_state.response]>>
        /\ a_state.plan.direct_response # EmptyText =>
               a_state.response = a_state.plan.direct_response

C17_Witness ==
    /\ a_pc = "done"
    /\ a_turns = 2
    /\ a_before # <<>>
    /\ a_state.response # EmptyText
    /\ a_state.plan.direct_response = EmptyText

\* C21: whatever the order in which the concurrent sub-queries finish, the
\* text get_search_results returns is made of one block per query, the
\* blocks in the order of the queries list.
C21_FanOutKeepsQueryOrder ==
    s_pc = "returned" =>
        s_out.text =
            Join([i \in DOMAIN s_queries |->
                    <<"Results for: ", s_queries[i]>>
                    \o (IF s_status[i].results = <<>> THEN <<>> ELSE <<"\n">>)
                    \o Join(FormatResults(s_status[i].results), "\n")],
                 "\n\n")

C21_Witness ==
    /\ s_pc = "returned"
    /\ s_reordered
    /\ Len(s_queries) >= 3
    /\ \E i, j \in DOMAIN s_queries :
         s_queries[i] # s_queries[j] /\ s_status[i].results # s_status[j].results

SomeSubQueryRaised == \E i \in DOMAIN s_status : s_status[i].kind = "failed"

\* C30: a get_search_results call in which a sub-query raised never returns a
\* result: once every started sub-query is settled the call has raised with a
\* sub-query's exception, and the Executor's handling of that exception
\* records the task with success = FALSE and the error text.
C30_SubQueryFailureSurfaces ==
    /\ s_pc = "returned" => ~SomeSubQueryRaised
    /\ (SomeSubQueryRaised /\ ~(ENABLED NextSearch)) =>
          /\ s_pc = "raised"
          /\ \E i \in DOMAIN s_status :
                s_status[i].kind = "failed" /\ s_out.exception = s_status[i].exception
          /\ LET task  == Task("t1", "tavily_web_search")
                 lists == ExecutorOnFailure(task, s_out.exception)
             IN  lists.executed_tasks =
                     <<ExecutedEntry(task, str(s_out.exception), FALSE)>>

C30_Witness ==
    /\ s_pc = "raised"
    /\ SomeSubQueryRaised
    /\ \E i \in DOMAIN s_status : s_status[i].kind = "ok"

\* the first planning round of the turn that state s belongs to: the chat
\* input has set input and message_history, nothing else has happened
FirstRoundState(s) ==
    [initial_state EXCEPT !.input = s.input, !.message_history = s.message_history]

PromptSansTime(prompt) == [prompt EXCEPT !.datetime = "-"]

AfterFailedTool(s) ==
    /\ s.executed_tasks # <<>>
    /\ ~Last(s.executed_tasks).success
    /\ s.remaining_tasks # <<>>

\* C25: in the planning round after a failed tool invocation the prompt the
\* Planner submits differs from the prompt of the turn's first planning round
\* in more than the timestamp (it carries the failed task's outcome).
C25_FailureContextReachesPlanner ==
    (p_pc = "done" /\ AfterFailedTool(p_state)) =>
        \A now \in Clock :
            PromptSansTime(p_out.submitted[1]) #
                PromptSansTime(Planner_build_messages(FirstRoundState(p_state), now))

\* the non-empty tool_use inputs of the streamed chunks, in stream order
RECURSIVE StreamedInputs(_)
StreamedInputs(body) ==
    IF body = <<>> THEN <<>>
    ELSE (IF /\ Head(body).event = "on_chat_model_stream"
             /\ Head(body).content # <<>>
             /\ Head(body).content[1].type = "tool_use"
             /\ Head(body).content[1].text # EmptyText
          THEN <<Head(body).content[1].text>> ELSE <<>>)
         \o StreamedInputs(Tail(body))

PlannerCompleted == p_pc = "done" /\ ~p_out.raised

\* C28: a completed streaming Planner invocation yields the plan tokens in
\* the order of the model stream, and yields the state with the parsed Plan
\* exactly once, after every token; every other state it yields carries
\* the token yielded just before it and the plan it was invoked with.
C28_PlannerStreamingOrder ==
    (PlannerCompleted /\ p_mode = "__call__") =>
        LET ys == p_out.yields
            n  == Len(ys)
        IN  /\ n >= 1
            /\ ys[n] = StateYield([p_state EXCEPT !.plan = p_events.end.plan])
            /\ \A i \in 1..(n - 1) :
                  \/ ys[i].type = "token"
                  \/ /\ ys[i].type = "state" /\ i > 1
                     /\ ys[i - 1].type = "token"
                     /\ ys[i].state = [p_state EXCEPT !.response = ys[i - 1].text]
            /\ \A i \in 1..(n - 1) :
                  ys[i].type = "token" => (i < n - 1 /\ ys[i + 1].type = "state")
            /\ LET toks == {i \in 1..n : ys[i].type = "token"}
               IN  /\ Cardinality(toks) = Len(StreamedInputs(p_events.body))
                   /\ \A i \in toks :
                         ys[i].text =
                             StreamedInputs(p_events.body)
                                 [Cardinality({j \in toks : j <= i})]

C28_Witness ==
    /\ PlannerCompleted /\ p_mode = "__call__"
    /\ Len(StreamedInputs(p_events.body)) = 2
    /\ StreamedInputs(p_events.body)[1] # StreamedInputs(p_events.body)[2]
    /\ p_events.end.plan.tasks # <<>>

ProducedState ==
    IF p_mode = "__call__" THEN Last(p_out.yields).state ELSE p_out.returned[1]

\* C29: the state a completed Planner invocation produces has the new Plan
\* as plan, whatever the plan before, and input, executed_tasks,
\* remaining_tasks, response and message_history as in the state received.
C29_PlannerReplacesOnlyPlan ==
    PlannerCompleted =>
        /\ ProducedState.plan = p_events.end.plan
        /\ ProducedState.input = p_state.input
        /\ ProducedState.executed_tasks = p_state.executed_tasks
        /\ ProducedState.remaining_tasks = p_state.remaining_tasks
        /\ ProducedState.response = p_state.response
        /\ ProducedState.message_history = p_state.message_history

C29_Witness ==
    /\ PlannerCompleted
    /\ p_state.plan.tasks # <<>>
    /\ p_state.executed_tasks # <<>>
    /\ p_events.end.plan.tasks # <<>>
    /\ p_events.end.plan # p_state.plan

IsFailurePart(part) == "status" \in DOMAIN part \/ "error" \in DOMAIN part

RECURSIVE ExpectedFailureParts(_)
ExpectedFailureParts(executed) ==
    IF executed = <<>> THEN <<>>
    ELSE (IF Head(executed).success THEN <<>>
          ELSE <<[status |-> "Failed"], [error |-> Head(executed).result]>>)
         \o ExpectedFailureParts(Tail(executed))

Succeeded(task_info) == task_info.success

ContextBuilt == c_pc = "done" /\ c_state.plan.direct_response = EmptyText

\* C26: the context holds, for every entry of executed_tasks with success =
\* FALSE and in the order of executed_tasks, a "Status: Failed" part directly
\* followed by the part "Error: <result>", one part per other entry, and the
\* citation list is the one the successful entries alone would give.
C26_FailedTasksInContext ==
    ContextBuilt =>
        /\ SelectSeq(c_out.context, IsFailurePart) =
               ExpectedFailureParts(c_state.executed_tasks)
        /\ \A k \in DOMAIN c_out.context :
              "status" \in DOMAIN c_out.context[k] =>
                  /\ k < Len(c_out.context)
                  /\ "error" \in DOMAIN c_out.context[k + 1]
        /\ Len(c_out.context) =
               1 + Len(c_state.executed_tasks)
                 + Len(SelectSeq(c_state.executed_tasks, LAMBDA t : ~t.success))
        /\ c_out.urls =
               Responder_build_context(
                   [c_state EXCEPT !.executed_tasks = SelectSeq(@, Succeeded)]).urls

C26_Witness ==
    /\ ContextBuilt
    /\ Len(c_state.executed_tasks) = 2
    /\ ~c_state.executed_tasks[1].success
    /\ IsBundle(c_state.executed_tasks[1].result)
    /\ c_state.executed_tasks[2].success
    /\ c_out.urls # <<>>

\* C27: the i-th entry of the citation list carries the label [i]: no gap
\* and no repeated index, also with repeated urls and items without a url.
C27_CitationIndicesSequential ==
    ContextBuilt => \A i \in DOMAIN c_out.urls : c_out.urls[i].index = i

C27_Witness ==
    /\ ContextBuilt
    /\ Len(c_out.urls) >= 3
    /\ \E i, j \in DOMAIN c_out.urls : i # j /\ c_out.urls[i].url = c_out.urls[j].url
    /\ \E k \in DOMAIN c_state.executed_tasks :
         /\ c_state.executed_tasks[k].success
         /\ IsBundle(c_state.executed_tasks[k].result)
         /\ LET items == c_state.executed_tasks[k].result.value.results
            IN  items # <<>> /\ ~ItemHasUrl(items[1])

\* C22: after any node has run, the plan held in the state has tasks exactly
\* when requires_tool is true.
C22_PlanInvariant ==
    trace # <<>> => (state.plan.requires_tool <=> state.plan.tasks # <<>>)

\* C23: an Executor call leaves the state object it received as it was:
\* plan.tasks, executed_tasks and remaining_tasks are unchanged after the call.
C23_ExecutorWorksOnSnapshot ==
    \A i \in DOMAIN e_calls :
        LET c == e_calls[i]
        IN  /\ c.input_after.plan.tasks = c.input.plan.tasks
            /\ c.input_after.executed_tasks = c.input.executed_tasks
            /\ c.input_after.remaining_tasks = c.input.remaining_tasks

\* C24: after a returned Executor call on a plan with several tasks,
\* remaining_tasks is the plan's tasks not yet attempted, in plan order,
\* followed by the task of this call when its tool raised.
C24_RemainingTasksOrder ==
    \A i \in DOMAIN e_calls :
        LET c == e_calls[i]
        IN  (~c.raised /\ Len(c.input.plan.tasks) >= 2) =>
                c.returned.remaining_tasks =
                    Tail(c.input.plan.tasks) \o
                        (IF ToolRaised(c) THEN <<Head(c.input.plan.tasks)>> ELSE <<>>)

ResponseTokens == SelectSeq(a_events, LAMBDA e : e.type = "response_token")

DeliveredText == Concat([i \in DOMAIN ResponseTokens |-> ResponseTokens[i].content])

\* C31: in a completed turn the contents of the response_token events add up
\* to the Responder's response; if tokens were streamed the response is not
\* emitted again, and if none was streamed the response is emitted as exactly
\* one response_token.
C31_ResponseTokensAddUpOnce ==
    a_pc = "done" =>
        /\ DeliveredText = a_state.response
        /\ a_streaming =>
              \A i \in DOMAIN ResponseTokens :
                  /\ ResponseTokens[i].content # EmptyText
                  /\ Len(ResponseTokens) > 1 =>
                        ResponseTokens[i].content # a_state.response
        /\ ~a_streaming =>
              /\ Len(ResponseTokens) = 1
              /\ ResponseTokens[1].content = a_state.response

C31_Witness ==
    /\ a_pc = "done"
    /\ a_streaming
    /\ Len(ResponseTokens) = 2
    /\ EventsOfType("execute_progress") # {}

Alternates(history) ==
    \A i \in DOMAIN history :
        history[i].role = (IF i % 2 = 1 THEN "user" ELSE "assistant")

\* C34: whatever turns were run, failed ones included, the session's
\* message_history alternates user, assistant, user, assistant, ... from the
\* first entry on, and between turns it ends with an assistant entry.
C34_HistoryAlternates ==
    /\ Alternates(a_session.message_history)
    /\ a_pc \in {"done", "failed"} => Len(a_session.message_history) % 2 = 0

FinalEvents == SelectSeq(a_events, LAMBDA e : e.type = "final")

PlanCompleteEvents == SelectSeq(a_events, LAMBDA e : e.type = "plan_complete")

\* C35: the state carried by the "final" event has the response that was
\* delivered through the response_token events, a message_history ending
\* with the Responder's assistant entry, and the latest plan, executed_tasks
\* and remaining_tasks.
C35_FinalReflectsTurn ==
    a_pc = "done" =>
        LET fs == FinalEvents[1].content
        IN  /\ fs.response = DeliveredText
            /\ fs.message_history # <<>>
            /\ Last(fs.message_history) =
                   [role |-> "assistant", content |-> a_state.response]
            /\ fs.plan = Last(PlanCompleteEvents).content
            /\ fs.executed_tasks = a_state.executed_tasks
            /\ fs.remaining_tasks = a_state.remaining_tasks

ExecutedSomeTask == \E k \in DOMAIN exec_log : ~exec_log[k].raised

\* C32: in every turn in which the Executor executed at least one task, the
\* Responder answers on the synthesis path (it submits a prompt to the model
\* and the response is what the model generates), also when the plan carries
\* a non-empty direct_response.
C32_ToolResultsUsed ==
    (Ran("responder") /\ node = ResponderEdge /\ ExecutedSomeTask) =>
        /\ resp_submitted # <<>>
        /\ state.executed_tasks # <<>>

\* C33: whenever the Responder starts, remaining_tasks is empty, whatever the
\* planner and executor rounds before it.
C33_NoPendingWork ==
    node = "responder" => state.remaining_tasks = <<>>

\* the turn was started from the chat interface: the prompt is the input and
\* the last entry of message_history
StartedFromChat(s) ==
    /\ s.message_history # <<>>
    /\ Last(s.message_history) = [role |-> "user", content |-> s.input]

\* C36: in the prompt the Planner builds for a turn started from the chat
\* interface the conversation is the prior history followed by the current
\* query once, as the last human turn; the query is not there twice in a row.
C36_QueryOnceInConversation ==
    (p_pc = "done" /\ StartedFromChat(p_state)) =>
        LET conv  == p_out.submitted[1].conversation
            prior == SubSeq(p_state.message_history, 1,
                            Len(p_state.message_history) - 1)
            n     == Len(conv)
        IN  /\ conv = HistoryMessages(prior) \o <<HumanMessage(p_state.input)>>
            /\ ~(n >= 2 /\ conv[n - 1] = HumanMessage(p_state.input)
                        /\ conv[n] = HumanMessage(p_state.input))

InFlightBounded == Cardinality(RunningQueries) <= 3

====
